---------------------------- MODULE Spec2Model ----------------------------
(***************************************************************************)
(* Model of the SEG-Y extraction-and-caching pipeline:                     *)
(*   src/streamlit/file_handler.py        (FileHandler)                    *)
(*   src/streamlit/segy_handler.py        (SegyHandler)                    *)
(*   src/streamlit/segy_info_extractor.py (SegyInfoExtractor)              *)
(*                                                                         *)
(* Python strings that the code only passes around (file names' kinds,     *)
(* labels, column names) are TLA+ strings.  Strings the code computes      *)
(* (logical names matched by substring, formatted numbers) are sequences   *)
(* of one-character strings.                                               *)
(***************************************************************************)
EXTENDS Integers, Sequences, FiniteSets, TLC

\* ------------------------------------------------------------------ bounds
\* Largest number of handler calls in one behaviour.
MaxOps == 3
\* Largest number of traces of a generated seismic file (SpecExtract).
MaxTraces == 3
\* Header values of generated files range over -MaxVal .. MaxVal.
MaxVal == 1

\* ---------------------------------------------------------- Python values
\* A Python value: t is its type, n/d its numeric value (d = 0 is nan),
\* s its characters when it is a str.
\*   "int"   Python int          "npint"  numpy integer
\*   "float" Python/numpy float  "str"    str
PyInt(n) == [t |-> "int", n |-> n, d |-> 1, s |-> <<>>]
NpInt(n) == [t |-> "npint", n |-> n, d |-> 1, s |-> <<>>]
PyFloat(n, d) == [t |-> "float", n |-> n, d |-> d, s |-> <<>>]
PyStr(s) == [t |-> "str", n |-> 0, d |-> 1, s |-> s]
NaN == PyFloat(0, 0)

Abs(x) == IF x < 0 THEN -x ELSE x

Digits == <<"0", "1", "2", "3", "4", "5", "6", "7", "8", "9">>

RECURSIVE NatToChars(_)
\* str(n) for a natural number n.
NatToChars(n) ==
    IF n < 10 THEN <<Digits[n + 1]>>
    ELSE NatToChars(n \div 10) \o <<Digits[(n % 10) + 1]>>

\* str(n) for an integer n.
IntToChars(n) == IF n < 0 THEN <<"-">> \o NatToChars(-n) ELSE NatToChars(n)

RECURSIVE rstrip(_, _)
\* str.rstrip(c): drop every trailing occurrence of the character c.
rstrip(s, c) ==
    IF Len(s) > 0 /\ s[Len(s)] = c THEN rstrip(SubSeq(s, 1, Len(s) - 1), c)
    ELSE s

\* round(|n| * 100 / d) to the nearest integer, ties to even: the number of
\* hundredths f"{x:.2f}" prints.  (A tie is decided on the binary value of
\* the float; it is the exact value n/d when d is a power of two, the only
\* ties that arise for the values drawn here.)
Hundredths(n, d) ==
    LET q == (Abs(n) * 100) \div d
        r == (Abs(n) * 100) % d
    IN  IF 2 * r > d THEN q + 1
        ELSE IF 2 * r < d THEN q
        ELSE IF q % 2 = 0 THEN q ELSE q + 1

\* f"{float(value):.2f}"
Fixed2(n, d) ==
    IF d = 0 THEN <<"n", "a", "n">>
    ELSE LET h == Hundredths(n, d)
         IN  (IF n < 0 THEN <<"-">> ELSE <<>>)
             \o NatToChars(h \div 100) \o <<".">>
             \o <<Digits[((h % 100) \div 10) + 1], Digits[(h % 10) + 1]>>

\* SegyInfoExtractor.format_number
format_number(value) ==
    IF value.t = "float"
    THEN PyStr(rstrip(rstrip(Fixed2(value.n, value.d), "0"), "."))
    ELSE IF value.t \in {"int", "npint"} THEN PyInt(value.n)
    ELSE value

\* str(value), as an f-string renders it.  Only int and str values are
\* rendered: every float passes format_number first.
str(value) == IF value.t = "str" THEN value.s ELSE IntToChars(value.n)

\* value != 0 in Python: a str never equals a number.
PyNeqZero(value) == value.t = "str" \/ value.d = 0 \/ value.n # 0

\* ------------------------------------------------------------ sequences
RECURSIVE SumSeq(_)
\* The sum of a sequence of integers (by halves, so that the depth of the
\* recursion stays small for a column of a long file).
SumSeq(s) ==
    IF Len(s) = 0 THEN 0
    ELSE IF Len(s) = 1 THEN s[1]
    ELSE SumSeq(SubSeq(s, 1, Len(s) \div 2))
         + SumSeq(SubSeq(s, (Len(s) \div 2) + 1, Len(s)))

RECURSIVE MaxSeq(_)
\* The largest element of a non-empty sequence of integers.
MaxSeq(s) ==
    IF Len(s) = 1 THEN s[1]
    ELSE LET lo == MaxSeq(SubSeq(s, 1, Len(s) \div 2))
             hi == MaxSeq(SubSeq(s, (Len(s) \div 2) + 1, Len(s)))
         IN  IF lo > hi THEN lo ELSE hi

RECURSIVE MinSeq(_)
\* The smallest element of a non-empty sequence of integers.
MinSeq(s) ==
    IF Len(s) = 1 THEN s[1]
    ELSE LET lo == MinSeq(SubSeq(s, 1, Len(s) \div 2))
             hi == MinSeq(SubSeq(s, (Len(s) \div 2) + 1, Len(s)))
         IN  IF lo < hi THEN lo ELSE hi

Range(s) == {s[i] : i \in DOMAIN s}

RECURSIVE SelectSeqBy(_, _)
\* The elements of s that are in the set keep, in the order of s.
SelectSeqBy(s, keep) ==
    IF s = <<>> THEN <<>>
    ELSE (IF s[1] \in keep THEN <<s[1]>> ELSE <<>>) \o SelectSeqBy(Tail(s), keep)

RECURSIVE SortedSeq(_)
\* The elements of a finite set of integers in increasing order.
SortedSeq(S) ==
    IF S = {} THEN <<>>
    ELSE LET m == CHOOSE x \in S : \A y \in S : x <= y
         IN  <<m>> \o SortedSeq(S \ {m})

\* x[i+1] - x[i], for i = 1 .. Len(x) - 1.
Diffs(x) == [i \in 1 .. (Len(x) - 1) |-> x[i + 1] - x[i]]

\* -------------------------------------------------------- SEG-Y files
\* The trace header fields the code names, in the order of their byte
\* positions in a trace header (the column order of the scraped frame).
TraceFields ==
    <<"TraceNumber", "CDP", "offset", "SourceGroupScalar", "SourceX",
      "SourceY", "DelayRecordingTime", "INLINE_3D", "CROSSLINE_3D">>

TraceFieldSet == Range(TraceFields)

\* The binary header fields enumerated by dir(segyio.BinField), which is in
\* alphabetical order.
BinFields == <<"Format", "Interval", "Samples", "Traces">>

\* What segyio.open does with a file:
\*   "3D"        strict open succeeds
\*   "nosort"    strict open raises RuntimeError "unable to find sorting",
\*               relaxed open succeeds
\*   "othergeom" strict open raises another RuntimeError, relaxed succeeds
\*   "corrupt"   every open raises RuntimeError
Geoms == {"3D", "nosort", "othergeom", "corrupt"}

\* A data frame: ordered columns, rows (one function column -> value per
\* row) and the row index.
Frame(cols, rows, index) == [cols |-> cols, rows |-> rows, index |-> index]

\* pandas RangeIndex(n): 0 .. n-1.
RangeIndex(n) == [i \in 1 .. n |-> i - 1]

\* The values of one column of a frame, in row order.
Column(df, key) == [i \in 1 .. Len(df.rows) |-> df.rows[i][key]]

\* segysak.segy_header_scrape: one row per trace, every header field.
segy_header_scrape(f) == Frame(TraceFields, f.traces, RangeIndex(Len(f.traces)))

\* The number of traces segysak.segy_header_scan reads when it is called
\* without max_traces_scan, as read_segy_headers calls it.
max_traces_scan == 1000

\* The traces segy_header_scan(path) computes its statistics from: the
\* first max_traces_scan traces of the file.
ScannedTraces(f) ==
    SubSeq(f.traces, 1,
           IF Len(f.traces) < max_traces_scan THEN Len(f.traces) ELSE max_traces_scan)

\* segysak.segy_header_scan, its "mean" column, compared with 0: the set of
\* fields whose mean over the scanned traces is non-zero (the mean of no
\* value at all is nan, which differs from 0).
ScanMeanNonZero(f) ==
    {k \in TraceFieldSet :
        Len(f.traces) = 0
        \/ SumSeq([i \in DOMAIN ScannedTraces(f) |-> ScannedTraces(f)[i][k]]) # 0}

\* df[cols]: the frame restricted to the columns cols.
SelectColumns(df, cols) ==
    Frame(cols,
          [i \in 1 .. Len(df.rows) |-> [k \in Range(cols) |-> df.rows[i][k]]],
          df.index)

\* df.reset_index(drop=True)
reset_index(df) == Frame(df.cols, df.rows, RangeIndex(Len(df.rows)))

\* df[name] = values: the column is replaced in place when it exists, and
\* appended otherwise.
SetColumn(df, name, values) ==
    Frame(IF name \in Range(df.cols) THEN df.cols ELSE Append(df.cols, name),
          [i \in 1 .. Len(df.rows) |->
              [k \in Range(df.cols) \cup {name} |->
                  IF k = name THEN values[i] ELSE df.rows[i][k]]],
          df.index)

\* scan[scan["mean"] != 0].index, in the order of the scan.
NonZeroHeaders(f) == SelectSeqBy(TraceFields, ScanMeanNonZero(f))

read_segy_headers_onebased(f) ==
    LET df == reset_index(SelectColumns(segy_header_scrape(f), NonZeroHeaders(f)))
    IN  SetColumn(df, "trace_index", [i \in 1 .. Len(df.rows) |-> df.index[i] + 1])

\* SegyHandler.read_segy_headers, on an opened file.
read_segy_headers(f) ==
    LET df == reset_index(SelectColumns(segy_header_scrape(f), NonZeroHeaders(f)))
    IN  SetColumn(df, "trace_index", df.index)

\* ------------------------------------------------- SegyInfoExtractor
\* pandas.read_parquet of a stored table (to_parquet stores no index).
read_parquet(stored) == Frame(stored.cols, stored.rows, RangeIndex(Len(stored.rows)))

\* NAMES_EN.get(field_name, field_name)
NAMES_EN(field_name) ==
    CASE field_name = "Interval" -> "sampling_rate"
      [] field_name = "Samples" -> "num_samples"
      [] field_name = "Format" -> "data_format"
      [] OTHER -> field_name

\* READABLE_NAMES.get(key, key.replace("_", " ").capitalize()), for the keys
\* of the catalogue.
READABLE_NAMES(key) ==
    CASE key = "sampling_rate" -> "Sampling Rate (ms)"
      [] key = "num_samples" -> "Samples per Trace"
      [] key = "data_format" -> "Data Format"
      [] key = "data_type" -> "Data Type"
      [] OTHER -> key

\* if value: the truth of None, True and False.
Truthy(value) == value = "True"

enter_retry_always(f) ==
    CASE f.geom = "3D" ->
           [exc |-> "none", is_3d |-> "True", opens |-> <<"open_strict">>]
      [] f.geom \in {"nosort", "othergeom"} ->
           [exc |-> "none", is_3d |-> "False",
            opens |-> <<"open_strict", "open_failed", "open_relaxed">>]
      [] OTHER ->
           [exc |-> "RuntimeError", is_3d |-> "None",
            opens |-> <<"open_strict", "open_failed">>]

\* SegyInfoExtractor.__enter__: the outcome of the geometry probe.
\*   exc    "none" or the exception that leaves __enter__
\*   is_3d  the classification: "None" (as __init__ left it), "True", "False"
\*   opens  the opens attempted, in order; "open_failed" follows an open
\*          that raised, which hands no file handle to the extractor
enter(f) ==
    CASE f.geom = "3D" ->
           [exc |-> "none", is_3d |-> "True", opens |-> <<"open_strict">>]
      [] f.geom = "nosort" ->
           [exc |-> "none", is_3d |-> "False",
            opens |-> <<"open_strict", "open_failed", "open_relaxed">>]
      [] f.geom = "othergeom" ->
           [exc |-> "RuntimeError", is_3d |-> "None",
            opens |-> <<"open_strict", "open_failed">>]
      [] OTHER ->
           [exc |-> "RuntimeError", is_3d |-> "None",
            opens |-> <<"open_strict", "open_failed">>]

\* SegyInfoExtractor.get_trace_header_value: the column, or zeros of the
\* same length (a float array).
get_trace_header_value(th, key) ==
    IF key \in Range(th.cols)
    THEN [dtype |-> "int", vals |-> Column(th, key)]
    ELSE [dtype |-> "float", vals |-> [i \in 1 .. Len(th.rows) |-> 0]]

\* A number of the column's type.
Scalar(c, n) == IF c.dtype = "int" THEN NpInt(n) ELSE PyFloat(n, 1)
ColMax(c) == Scalar(c, MaxSeq(c.vals))
ColMin(c) == Scalar(c, MinSeq(c.vals))
ColMean(c) == PyFloat(SumSeq(c.vals), Len(c.vals))
NUnique(c) == Cardinality(Range(c.vals))

\* Series.mode(): the most frequent values, in increasing order.
Mode(x) ==
    LET count(v) == Cardinality({i \in DOMAIN x : x[i] = v})
    IN  SortedSeq({v \in Range(x) : \A w \in Range(x) : count(w) <= count(v)})

\* np.median of a non-empty sequence, as the fraction <<n, d>>.
Median(x) ==
    LET \* x with repetitions, sorted: position k holds the k-th smallest
        rank(k) == CHOOSE v \in Range(x) :
                      /\ Cardinality({i \in DOMAIN x : x[i] < v}) < k
                      /\ Cardinality({i \in DOMAIN x : x[i] <= v}) >= k
        n == Len(x)
    IN  IF n % 2 = 1 THEN <<rank((n + 1) \div 2), 1>>
        ELSE <<rank(n \div 2) + rank((n \div 2) + 1), 2>>

\* extract_basic_info raises KeyError: the mode of the differences of a
\* one-row column is empty, and [0] has nothing to return.
basic_info_fails(th) == Len(th.rows) < 2

\* A dict is the sequence of its <<key, value>> pairs, in insertion order.
Has(dict, key) == \E i \in DOMAIN dict : dict[i][1] = key
Get(dict, key) == dict[CHOOSE i \in DOMAIN dict : dict[i][1] = key][2]

\* SegyInfoExtractor.extract_basic_info
extract_basic_info(th, is_3d) ==
    LET sx == get_trace_header_value(th, "SourceX")
        off == get_trace_header_value(th, "offset")
        cdp == get_trace_header_value(th, "CDP")
        il == get_trace_header_value(th, "INLINE_3D")
        xl == get_trace_header_value(th, "CROSSLINE_3D")
        delay == get_trace_header_value(th, "DelayRecordingTime")
    IN  << <<"recording_time", format_number(PyFloat(MaxSeq(delay.vals), 1000))>>,
           <<"shot_point_distance", format_number(PyFloat(Abs(Mode(Diffs(sx.vals))[1]), 1))>>,
           <<"plot_direction", IF SumSeq(Diffs(sx.vals)) > 0 THEN PyStr(<<"LR">>) ELSE PyStr(<<"RL">>)>>,
           <<"min_offset", format_number(ColMin(off))>>,
           <<"max_offset", format_number(ColMax(off))>>,
           <<"num_channels", format_number(PyInt(NUnique(get_trace_header_value(th, "TraceNumber"))))>>,
           <<"first_cdp", format_number(ColMin(cdp))>>,
           <<"last_cdp", format_number(ColMax(cdp))>> >>
        \o (IF is_3d
            THEN << <<"first_inline", format_number(ColMin(il))>>,
                    <<"last_inline", format_number(ColMax(il))>>,
                    <<"first_crossline", format_number(ColMin(xl))>>,
                    <<"last_crossline", format_number(ColMax(xl))>> >>
            ELSE <<>>)

RECURSIVE BinHeaderFrom(_, _, _)
\* The loop of extract_binary_header_info over the catalogue, from field i.
BinHeaderFrom(f, i, acc) ==
    IF i > Len(BinFields) THEN acc
    ELSE LET field_name == BinFields[i]
             raw == f.bin[field_name]
             value == IF field_name = "Interval"
                      THEN format_number(PyFloat(raw.v, 1000))
                      ELSE PyInt(raw.v)
         IN  IF raw.ok /\ PyNeqZero(value)
             THEN BinHeaderFrom(f, i + 1, Append(acc, <<NAMES_EN(field_name), value>>))
             ELSE BinHeaderFrom(f, i + 1, acc)

\* SegyInfoExtractor.extract_binary_header_info: the kept fields as
\* <<name, value>>, in insertion order.
extract_binary_header_info(f, is_3d) ==
    Append(BinHeaderFrom(f, 1, <<>>),
           <<"data_type", IF is_3d THEN PyStr(<<"3D">>) ELSE PyStr(<<"2D">>)>>)

\* SegyInfoExtractor.extract_geometry_info
extract_geometry_info(th, f, is_3d) ==
    LET sx == get_trace_header_value(th, "SourceX")
        sy == get_trace_header_value(th, "SourceY")
    IN  << <<"total_traces", PyInt(Len(f.traces))>>,
           <<"total_shots", PyInt(NUnique(sx))>>,
           <<"x_min", format_number(ColMin(sx))>>,
           <<"x_max", format_number(ColMax(sx))>>,
           <<"y_min", format_number(ColMin(sy))>>,
           <<"y_max", format_number(ColMax(sy))>> >>
        \o (IF is_3d
            THEN << <<"inline_dimensions",
                      PyInt(NUnique(get_trace_header_value(th, "INLINE_3D")))>>,
                    <<"crossline_dimensions",
                      PyInt(NUnique(get_trace_header_value(th, "CROSSLINE_3D")))>> >>
            ELSE <<>>)

NotApplicable == PyStr(<<"Not applicable">>)

\* pd.Series(cdp_values).groupby(cdp_values).size(): the group sizes, in
\* the order of the group keys.
GroupSizes(x) ==
    LET keys == SortedSeq(Range(x))
    IN  [g \in 1 .. Len(keys) |-> Cardinality({i \in DOMAIN x : x[i] = keys[g]})]

\* np.std(cdp_values) != 0: the standard deviation of a column is zero
\* exactly when its sum of squared deviations from the mean is.
StdNonZero(x) ==
    LET n == Len(x)
        s == SumSeq(x)
    IN  n > 0 /\ SumSeq([i \in 1 .. n |-> (n * x[i] - s) * (n * x[i] - s)]) # 0

\* np.median(np.diff(np.sort(np.unique(values)))): nan when there is one
\* distinct value.
Spacing(c) ==
    LET d == Diffs(SortedSeq(Range(c.vals)))
    IN  IF Len(d) = 0 THEN NaN ELSE PyFloat(Median(d)[1], Median(d)[2])

\* The part of extract_acquisition_info that is computed for a 3D file.
LineSpacing(th, is_3d) ==
    IF is_3d
    THEN << <<"inline_spacing",
              format_number(Spacing(get_trace_header_value(th, "INLINE_3D")))>>,
            <<"crossline_spacing",
              format_number(Spacing(get_trace_header_value(th, "CROSSLINE_3D")))>> >>
    ELSE <<>>

\* The fold metrics computed from the groups.
FoldMetrics(fold) ==
    << <<"average_fold", format_number(PyFloat(SumSeq(fold), Len(fold)))>>,
       <<"maximum_fold", format_number(NpInt(MaxSeq(fold)))>>,
       <<"minimum_fold", format_number(NpInt(MinSeq(fold)))>> >>

extract_acquisition_info_unguarded(th, is_3d) ==
    FoldMetrics(GroupSizes(get_trace_header_value(th, "CDP").vals))
    \o LineSpacing(th, is_3d)

\* SegyInfoExtractor.extract_acquisition_info
extract_acquisition_info(th, is_3d) ==
    LET cdp_values == get_trace_header_value(th, "CDP").vals
    IN  (IF StdNonZero(cdp_values)
         THEN FoldMetrics(GroupSizes(cdp_values))
         ELSE << <<"average_fold", NotApplicable>>,
                 <<"maximum_fold", NotApplicable>>,
                 <<"minimum_fold", NotApplicable>> >>)
        \o LineSpacing(th, is_3d)

extract_scaling_factor_unformatted(th) ==
    LET scalar == ColMax(get_trace_header_value(th, "SourceGroupScalar"))
    IN  IF PyNeqZero(scalar) THEN scalar ELSE PyInt(1)

\* SegyInfoExtractor.extract_scaling_factor
extract_scaling_factor(th) ==
    LET scalar == format_number(ColMean(get_trace_header_value(th, "SourceGroupScalar")))
    IN  IF PyNeqZero(scalar) THEN scalar ELSE PyInt(1)

\* "\n".join(lines) of format_binary_header_info: one line per kept field.
format_binary_header_info(bin_head) ==
    [i \in 1 .. Len(bin_head) |->
        [label |-> READABLE_NAMES(bin_head[i][1]), vals |-> <<str(bin_head[i][2])>>]]

Line(label, vals) == [label |-> label, vals |-> vals]

LinesOf3D_none(basic, geo, acq) == <<>>

\* The lines appended to the report of a 3D file.
LinesOf3D(basic, geo, acq) ==
    << Line("Inline Range", <<str(Get(basic, "first_inline")), str(Get(basic, "last_inline"))>>),
       Line("Crossline Range", <<str(Get(basic, "first_crossline")), str(Get(basic, "last_crossline"))>>),
       Line("Inline Dimensions", <<str(Get(geo, "inline_dimensions"))>>),
       Line("Crossline Dimensions", <<str(Get(geo, "crossline_dimensions"))>>),
       Line("Inline Spacing", <<str(Get(acq, "inline_spacing"))>>),
       Line("Crossline Spacing", <<str(Get(acq, "crossline_spacing"))>>) >>

\* SegyInfoExtractor.get_segy_info_text: the report, as the sequence of its
\* lines; a line is its label and the values rendered into it.  For a 3D
\* file the text "CDP Range:" is followed by a line break.
get_segy_info_text(info, is_3d) ==
    LET basic == info.basic_information
        geo == info.geometry
        acq == info.acquisition
    IN  << Line("DETAILED INFORMATION OF THE SEG-Y FILE", <<>>),
           Line("INFORMATION CONTAINED IN THE ASCII HEADER:", <<>>),
           Line("ASCII_header", <<info.ascii_header_text>>),
           Line("BASIC INFORMATION:", <<>>),
           Line("Recording Time", <<str(Get(basic, "recording_time"))>>),
           Line("Distance Between Shot Points", <<str(Get(basic, "shot_point_distance"))>>),
           Line("Plot Direction", <<str(Get(basic, "plot_direction"))>>),
           Line("Offset Range", <<str(Get(basic, "min_offset")), str(Get(basic, "max_offset"))>>),
           Line("Number of Channels", <<str(Get(basic, "num_channels"))>>),
           Line(IF is_3d THEN "CDP Range:\\n" ELSE "CDP Range",
                <<str(Get(basic, "first_cdp")), str(Get(basic, "last_cdp"))>>),
           Line("BINARY HEADER INFORMATION:", <<>>) >>
        \o format_binary_header_info(info.binary_header)
        \o << Line("GEOMETRY INFORMATION:", <<>>),
              Line("Total Traces", <<str(Get(geo, "total_traces"))>>),
              Line("Total Shots", <<str(Get(geo, "total_shots"))>>),
              Line("Coordinates:", <<>>),
              Line("X", <<str(Get(geo, "x_min")), str(Get(geo, "x_max"))>>),
              Line("Y", <<str(Get(geo, "y_min")), str(Get(geo, "y_max"))>>),
              Line("ACQUISITION INFORMATION:", <<>>),
              Line("Average Fold", <<str(Get(acq, "average_fold"))>>),
              Line("Maximum Fold", <<str(Get(acq, "maximum_fold"))>>),
              Line("Minimum Fold", <<str(Get(acq, "minimum_fold"))>>) >>
        \o (IF is_3d THEN LinesOf3D(basic, geo, acq) ELSE <<>>)

\* SegyInfoExtractor.extract_all_info, once the file is open and the basic
\* information can be computed: <<information, scaling_factor>>.
extract_all_info(th, f, is_3d) ==
    LET info == [basic_information |-> extract_basic_info(th, is_3d),
                 binary_header |-> extract_binary_header_info(f, is_3d),
                 geometry |-> extract_geometry_info(th, f, is_3d),
                 acquisition |-> extract_acquisition_info(th, is_3d),
                 ascii_header_text |-> <<f.text>>]
    IN  <<get_segy_info_text(info, is_3d), extract_scaling_factor(th)>>

\* ------------------------------------------------------------ JSON
\* json.dump(..., default=str) of a value: a JSON token.  A numpy integer
\* is no JSON type and goes through default=str.
JsonDumpValue(value) ==
    CASE value.t = "int" -> [j |-> "int", n |-> value.n, d |-> 1, s |-> <<>>]
      [] value.t = "float" -> [j |-> "real", n |-> value.n, d |-> value.d, s |-> <<>>]
      [] value.t = "npint" -> [j |-> "string", n |-> 0, d |-> 1, s |-> IntToChars(value.n)]
      [] OTHER -> [j |-> "string", n |-> 0, d |-> 1, s |-> value.s]

\* json.load of a JSON token.
JsonLoadValue(token) ==
    CASE token.j = "int" -> PyInt(token.n)
      [] token.j = "real" -> PyFloat(token.n, token.d)
      [] OTHER -> PyStr(token.s)

\* The statistics dictionary {current_file: {"columns", "infos", "scalco"}}.
StatsDict(current_file, columns, infos, scalco) ==
    [key |-> current_file, columns |-> columns, infos |-> infos, scalco |-> scalco]

\* The JSON text json.dump writes for a statistics dictionary.
JsonDump(data) ==
    [key |-> data.key, columns |-> data.columns, infos |-> data.infos,
     scalco |-> JsonDumpValue(data.scalco)]

\* The dictionary json.load reads from a JSON text.
JsonLoad(text) ==
    [key |-> text.key, columns |-> text.columns, infos |-> text.infos,
     scalco |-> JsonLoadValue(text.scalco)]

\* ------------------------------------------------------ the handler
VARIABLES
    data_directory,        \* SegyHandler.data_directory
    available_segy_files,  \* SegyHandler.available_segy_files (the registry)
    segy,                  \* the seismic files of data_directory: <<name, ext>> -> file
    parquet,               \* the header-table caches: <<directory, name>> -> table
    txt,                   \* the text header dumps of data_directory: name -> text
    json,                  \* the statistics entries of data_directory/metadata: name -> JSON text
    last,                  \* the last call: operation, argument, exception, result, I/O log
    nops,                  \* the number of calls made
    computed,              \* name -> the number of statistics computations completed
    removed                \* the names a cache artifact of which was removed

vars == <<data_directory, available_segy_files, segy, parquet, txt, json,
          last, nops, computed, removed>>

\* The directory FileHandler() uses when it is given none.
DefaultDirectory == "./data"

Directories == {DefaultDirectory, "./alt"}

\* The logical names of the calls.
Names == {<<"a">>, <<"a", "b">>, <<"b">>}

\* The registries a handler is constructed with.
Registries ==
    {<<>>, << <<"a">> >>, << <<"a", "b">> >>,
     << <<"a">>, <<"a", "b">> >>, << <<"a", "b">>, <<"a">> >>}

\* name in current_file, for Python strings.
IsSubstring(name, current_file) ==
    \E i \in 0 .. (Len(current_file) - Len(name)) :
        SubSeq(current_file, i + 1, i + Len(name)) = name

get_segy_base_name_last(registry, current_file) ==
    LET hits == {i \in DOMAIN registry : IsSubstring(registry[i], current_file)}
    IN  IF hits = {} THEN [ok |-> FALSE, name |-> <<>>]
        ELSE [ok |-> TRUE, name |-> registry[CHOOSE i \in hits : \A k \in hits : k <= i]]

\* SegyHandler.get_segy_base_name: the first entry of the registry that is
\* a substring of current_file; ok is FALSE when it raises ValueError.
get_segy_base_name(registry, current_file) ==
    LET hits == {i \in DOMAIN registry : IsSubstring(registry[i], current_file)}
    IN  IF hits = {} THEN [ok |-> FALSE, name |-> <<>>]
        ELSE [ok |-> TRUE, name |-> registry[CHOOSE i \in hits : \A k \in hits : i <= k]]

\* possible_extensions of get_segy_file_path, in priority order.
possible_extensions == <<".sgy", ".segy">>

\* FileHandler.get_segy_file_path: the first existing path; ok is FALSE
\* when it raises FileNotFoundError.
get_segy_file_path(files, file_name) ==
    LET hits == {i \in DOMAIN possible_extensions :
                    <<file_name, possible_extensions[i]>> \in DOMAIN files}
    IN  IF hits = {} THEN [ok |-> FALSE, path |-> <<file_name, "">>]
        ELSE [ok |-> TRUE,
              path |-> <<file_name,
                         possible_extensions[CHOOSE i \in hits : \A k \in hits : i <= k]>>]

\* str.lower() of the column names that occur.
Lower(col) ==
    CASE col = "Amplitudes" -> "amplitudes"
      [] col = "Amplitude" -> "amplitude"
      [] col = "TRACE_INDEX" -> "trace_index"
      [] col = "CDP" -> "cdp"
      [] col = "TraceNumber" -> "tracenumber"
      [] col = "SourceGroupScalar" -> "sourcegroupscalar"
      [] col = "SourceX" -> "sourcex"
      [] col = "SourceY" -> "sourcey"
      [] col = "DelayRecordingTime" -> "delayrecordingtime"
      [] col = "INLINE_3D" -> "inline_3d"
      [] col = "CROSSLINE_3D" -> "crossline_3d"
      [] OTHER -> col

\* The column filter of get_seismic_statistics.
StatColumns(columns) ==
    SelectSeq(columns,
              LAMBDA col : Lower(col) \notin {"amplitude", "amplitudes", "trace_index"})

\* f with the value v at x (x is added to the domain when it is not in it).
Put(f, x, v) == [y \in DOMAIN f \cup {x} |-> IF y = x THEN v ELSE f[y]]

\* f without x.
Drop(f, x) == [y \in DOMAIN f \ {x} |-> f[y]]

\* What a call leaves: the cache artifacts, the exception that left it
\* ("none" on return) with the exception it was raised from, the returned
\* values (none or one) and the I/O done, in order.
Result(disk, exc, cause, ret, log) ==
    [disk |-> disk, exc |-> exc, cause |-> cause, ret |-> ret, log |-> log]

\* A call of a segysak function with the path of the seismic file
\* (segy_header_scan, segy_header_scrape, get_segy_texthead): the function
\* opens the file, reads it and closes it.
LibraryRead(event) == <<"open_by_path", event, "close">>

\* SegyHandler.get_segy_information: <<info, scalar>> in ret.  The
\* extractor reads the header table from FileHandler()'s directory.  The
\* file opened by __enter__ is closed by __exit__ when the with block ends,
\* by a KeyError of extract_basic_info or normally; __exit__ does not run
\* when __enter__ raised.  get_segy_texthead is called inside the with
\* block with the path of the file, which it opens and closes itself.
get_segy_information(disk, current_file) ==
    LET base == get_segy_base_name(available_segy_files, current_file)
        found == get_segy_file_path(segy, base.name)
        table == <<DefaultDirectory, current_file>>
        f == segy[found.path]
        th == read_parquet(disk.parquet[table])
        probe == enter(f)
        opened == <<"extractor_read_parquet">> \o probe.opens
    IN  IF ~base.ok THEN Result(disk, "ValueError", "none", {}, <<>>)
        ELSE IF ~found.ok THEN Result(disk, "FileNotFoundError", "none", {}, <<>>)
        ELSE IF table \notin DOMAIN disk.parquet
        THEN Result(disk, "Exception", "FileNotFoundError", {}, <<"extractor_read_parquet">>)
        ELSE IF probe.exc # "none" THEN Result(disk, probe.exc, "none", {}, opened)
        ELSE IF basic_info_fails(th)
        THEN Result(disk, "KeyError", "none", {}, opened \o <<"close">>)
        ELSE Result(disk, "none", "none",
                    {extract_all_info(th, f, Truthy(probe.is_3d))},
                    opened \o LibraryRead("texthead") \o <<"close", "decoded">>)

\* SegyHandler.__save_segy_text_header_as_txt
save_segy_text_header_as_txt(disk, file_name) ==
    LET found == get_segy_file_path(segy, file_name)
    IN  IF ~found.ok THEN Result(disk, "FileNotFoundError", "none", {}, <<>>)
        ELSE Result([disk EXCEPT !.txt = Put(@, file_name, segy[found.path].text)],
                    "none", "none", {}, LibraryRead("texthead") \o <<"write_txt">>)

\* SegyHandler.__read_and_save_segy_headers (read_segy_headers, to_parquet):
\* read_segy_headers holds the file open while segy_header_scan and
\* segy_header_scrape, called with the path, open it again.
read_and_save_segy_headers(disk, file_name) ==
    LET found == get_segy_file_path(segy, file_name)
        f == segy[found.path]
        df == read_segy_headers(f)
    IN  IF ~found.ok THEN Result(disk, "FileNotFoundError", "none", {}, <<>>)
        ELSE IF f.geom = "corrupt"
        THEN Result(disk, "RuntimeError", "none", {}, <<"open_relaxed", "open_failed">>)
        ELSE Result([disk EXCEPT !.parquet =
                        Put(@, <<data_directory, file_name>>,
                            [cols |-> df.cols, rows |-> df.rows])],
                    "none", "none", {},
                    <<"open_relaxed">> \o LibraryRead("scan") \o LibraryRead("scrape")
                    \o <<"close", "write_parquet">>)

extract_segy_trace_headers_swapped(disk, file_name) ==
    LET saved == read_and_save_segy_headers(disk, file_name)
        dumped == save_segy_text_header_as_txt(saved.disk, file_name)
    IN  IF saved.exc # "none"
        THEN Result(saved.disk, "Exception", saved.exc, {}, saved.log)
        ELSE IF dumped.exc # "none"
        THEN Result(dumped.disk, "Exception", dumped.exc, {}, saved.log \o dumped.log)
        ELSE Result(dumped.disk, "none", "none", {}, saved.log \o dumped.log)

\* SegyHandler.__extract_segy_trace_headers: every exception is raised
\* again as a plain Exception.
extract_segy_trace_headers(disk, file_name) ==
    LET dumped == save_segy_text_header_as_txt(disk, file_name)
        saved == read_and_save_segy_headers(dumped.disk, file_name)
    IN  IF dumped.exc # "none"
        THEN Result(dumped.disk, "Exception", dumped.exc, {}, dumped.log)
        ELSE IF saved.exc # "none"
        THEN Result(saved.disk, "Exception", saved.exc, {}, dumped.log \o saved.log)
        ELSE Result(saved.disk, "none", "none", {}, dumped.log \o saved.log)

\* segyfile.trace[i], for the 0-based position i: the samples of a trace
\* are represented by the number of the trace.
trace(f, i) == f.traces[i + 1]["TraceNumber"]

\* SegyHandler.add_amplitudes_to_dataframe: the frame with the column
\* "Amplitudes" in ret.  The file is held open while the traces are read
\* and closed when the with block ends, by an exception or normally.
add_amplitudes_to_dataframe(disk, df, current_file) ==
    LET base == get_segy_base_name(available_segy_files, current_file)
        found == get_segy_file_path(segy, base.name)
        f == segy[found.path]
        indices == Column(df, "trace_index")
    IN  IF ~base.ok THEN Result(disk, "ValueError", "none", {}, <<>>)
        ELSE IF ~found.ok THEN Result(disk, "FileNotFoundError", "none", {}, <<>>)
        ELSE IF f.geom = "corrupt"
        THEN Result(disk, "RuntimeError", "none", {}, <<"open_relaxed", "open_failed">>)
        ELSE IF "trace_index" \notin Range(df.cols)
        THEN Result(disk, "KeyError", "none", {}, <<"open_relaxed", "close">>)
        ELSE IF \E k \in DOMAIN indices : indices[k] >= Len(f.traces)
        THEN Result(disk, "IndexError", "none", {}, <<"open_relaxed", "close">>)
        ELSE Result(disk, "none", "none",
                    {SetColumn(reset_index(df), "Amplitudes",
                               [k \in DOMAIN indices |-> trace(f, indices[k])])},
                    <<"open_relaxed", "close">>)

save_segy_information_to_data_directory(entries, file_name, json_data) == entries

\* FileHandler.save_segy_information_to_json: the entries of the metadata
\* directory after the write.
save_segy_information_to_json(entries, file_name, json_data) ==
    Put(entries, file_name, JsonDump(json_data))

\* FileHandler.load_segy_from_json: the dictionary read, or nothing (None)
\* when the file does not exist.
load_segy_from_json(entries, file_name) ==
    IF file_name \in DOMAIN entries THEN {JsonLoad(entries[file_name])} ELSE {}

\* SegyHandler.get_seismic_statistics, from the call of
\* get_segy_information on: got is what that call left.
save_statistics(disk, current_file, columns, got) ==
    IF got.exc # "none"
    THEN Result(disk, got.exc, got.cause, {}, <<"read_parquet">> \o got.log)
    ELSE Result([disk EXCEPT !.json =
                    save_segy_information_to_json(
                        @, current_file,
                        StatsDict(current_file, columns,
                                  (CHOOSE x \in got.ret : TRUE)[1],
                                  (CHOOSE x \in got.ret : TRUE)[2]))],
                "none", "none",
                {StatsDict(current_file, columns,
                           (CHOOSE x \in got.ret : TRUE)[1],
                           (CHOOSE x \in got.ret : TRUE)[2])},
                <<"read_parquet">> \o got.log \o <<"write_json">>)

\* SegyHandler.get_seismic_statistics, when no entry is persisted.
compute_seismic_statistics(disk, current_file) ==
    IF <<data_directory, current_file>> \notin DOMAIN disk.parquet
    THEN Result(disk, "Exception", "Exception", {}, <<"read_parquet">>)
    ELSE save_statistics(disk, current_file,
                         StatColumns(disk.parquet[<<data_directory, current_file>>].cols),
                         get_segy_information(disk, current_file))

get_seismic_statistics_recompute(disk, current_file) ==
    IF <<data_directory, current_file>> \in DOMAIN disk.parquet
    THEN compute_seismic_statistics(disk, current_file)
    ELSE Result(disk, "none", "none",
                load_segy_from_json(disk.json, current_file), <<"load_json">>)

\* SegyHandler.get_seismic_statistics
get_seismic_statistics(disk, current_file) ==
    LET json_data == load_segy_from_json(disk.json, current_file)
    IN  IF json_data # {}
        THEN Result(disk, "none", "none", json_data, <<"load_json">>)
        ELSE compute_seismic_statistics(disk, current_file)

\* A result with the I/O that was done before it.
After(log, r) == Result(r.disk, r.exc, r.cause, r.ret, log \o r.log)

\* SegyHandler.process_segy_file, from the return of
\* __extract_segy_trace_headers on: extracted is what that call left.
statistics_after_extraction(current_file, extracted) ==
    IF extracted.exc # "none" THEN extracted
    ELSE After(extracted.log, get_seismic_statistics(extracted.disk, current_file))

\* SegyHandler.process_segy_file, from the resolution of the name on.
process_resolved(disk, current_file, base) ==
    IF ~base.ok THEN Result(disk, "ValueError", "none", {}, <<>>)
    ELSE IF <<data_directory, current_file>> \in DOMAIN disk.parquet
    THEN get_seismic_statistics(disk, current_file)
    ELSE IF current_file # base.name
    THEN Result(disk, "ValueError", "none", {}, <<>>)
    ELSE statistics_after_extraction(
             current_file, extract_segy_trace_headers(disk, current_file))

process_segy_file_unchecked(disk, current_file) ==
    IF ~get_segy_base_name(available_segy_files, current_file).ok
    THEN Result(disk, "ValueError", "none", {}, <<>>)
    ELSE IF <<data_directory, current_file>> \in DOMAIN disk.parquet
    THEN get_seismic_statistics(disk, current_file)
    ELSE statistics_after_extraction(
             current_file, extract_segy_trace_headers(disk, current_file))

\* SegyHandler.process_segy_file
process_segy_file(disk, current_file) ==
    process_resolved(disk, current_file,
                     get_segy_base_name(available_segy_files, current_file))

\* ------------------------------------------------------------ actions
Disk == [parquet |-> parquet, txt |-> txt, json |-> json]

\* The state after a call of the handler that left r.
Called(op, arg, r) ==
    /\ nops < MaxOps
    /\ nops' = nops + 1
    /\ parquet' = r.disk.parquet
    /\ txt' = r.disk.txt
    /\ json' = r.disk.json
    /\ last' = [op |-> op, arg |-> arg, exc |-> r.exc, cause |-> r.cause,
                ret |-> r.ret, log |-> r.log]
    /\ computed' = [n \in Names |->
                      IF n = arg /\ "decoded" \in Range(r.log)
                      THEN computed[n] + 1 ELSE computed[n]]

\* A call of process_segy_file(current_file).
Process(current_file) ==
    /\ Called("process_segy_file", current_file, process_segy_file(Disk, current_file))
    /\ UNCHANGED <<data_directory, available_segy_files, segy, removed>>

\* A call of get_seismic_statistics(current_file).
GetStatistics(current_file) ==
    /\ Called("get_seismic_statistics", current_file,
              get_seismic_statistics(Disk, current_file))
    /\ UNCHANGED <<data_directory, available_segy_files, segy, removed>>

\* The kinds of file remove_file is called on.
Kinds == {".parquet", ".txt", ".json", ".sgy", ".segy"}

\* FileHandler.remove_file, on <name><kind> (metadata/<name>.json for a
\* statistics entry): whether the file exists.
file_exists(kind, name) ==
    CASE kind = ".parquet" -> <<data_directory, name>> \in DOMAIN parquet
      [] kind = ".txt" -> name \in DOMAIN txt
      [] kind = ".json" -> name \in DOMAIN json
      [] OTHER -> <<name, kind>> \in DOMAIN segy

\* A call of remove_file: FileNotFoundError when the file does not exist.
RemoveFile(kind, name) ==
    /\ nops < MaxOps
    /\ nops' = nops + 1
    /\ last' = [op |-> "remove_file", arg |-> name,
                exc |-> IF file_exists(kind, name) THEN "none" ELSE "FileNotFoundError",
                cause |-> "none", ret |-> {}, log |-> <<>>]
    /\ parquet' = IF kind = ".parquet" /\ file_exists(kind, name)
                  THEN Drop(parquet, <<data_directory, name>>) ELSE parquet
    /\ txt' = IF kind = ".txt" /\ file_exists(kind, name) THEN Drop(txt, name) ELSE txt
    /\ json' = IF kind = ".json" /\ file_exists(kind, name) THEN Drop(json, name) ELSE json
    /\ segy' = IF kind \in {".sgy", ".segy"} /\ file_exists(kind, name)
               THEN Drop(segy, <<name, kind>>) ELSE segy
    /\ removed' = IF kind \in {".parquet", ".txt", ".json"} /\ file_exists(kind, name)
                  THEN removed \cup {name} ELSE removed
    /\ UNCHANGED <<data_directory, available_segy_files, computed>>

\* A call of to_parquet(df, <file_name>.parquet): the table is written to
\* the handler's directory.
ToParquet(df, file_name) ==
    /\ nops < MaxOps
    /\ nops' = nops + 1
    /\ parquet' = Put(parquet, <<data_directory, file_name>>,
                      [cols |-> df.cols, rows |-> df.rows])
    /\ last' = [op |-> "to_parquet", arg |-> file_name, exc |-> "none",
                cause |-> "none", ret |-> {}, log |-> <<"write_parquet">>]
    /\ UNCHANGED <<data_directory, available_segy_files, segy, txt, json,
                   computed, removed>>

\* A call of save_segy_information_to_json(<file_name>.json, json_data):
\* the dictionary is written to the metadata directory of the handler,
\* whatever it holds.
SaveJson(file_name, json_data) ==
    /\ nops < MaxOps
    /\ nops' = nops + 1
    /\ json' = save_segy_information_to_json(json, file_name, json_data)
    /\ last' = [op |-> "save_segy_information_to_json", arg |-> file_name,
                exc |-> "none", cause |-> "none", ret |-> {},
                log |-> <<"write_json">>]
    /\ UNCHANGED <<data_directory, available_segy_files, segy, parquet, txt,
                   computed, removed>>

\* A call of add_amplitudes_to_dataframe(df, current_file).
AddAmplitudes(df, current_file) ==
    /\ Called("add_amplitudes_to_dataframe", current_file,
              add_amplitudes_to_dataframe(Disk, df, current_file))
    /\ UNCHANGED <<data_directory, available_segy_files, segy, removed>>

\* ------------------------------------------------------ seismic files
\* Trace i of a file, with the given CDP and coordinate scalar.
Trace(i, cdp, sgs) ==
    [k \in TraceFieldSet |->
        CASE k = "CDP" -> cdp
          [] k = "SourceGroupScalar" -> sgs
          [] k \in {"TraceNumber", "SourceX", "CROSSLINE_3D"} -> i
          [] k = "INLINE_3D" -> cdp
          [] OTHER -> 0]

\* A binary header: sampling interval 2000 us, 5 samples, format 1, and a
\* field that cannot be read.
SampleBin ==
    [k \in Range(BinFields) |->
        CASE k = "Interval" -> [ok |-> TRUE, v |-> 2000]
          [] k = "Samples" -> [ok |-> TRUE, v |-> 5]
          [] k = "Format" -> [ok |-> TRUE, v |-> 1]
          [] OTHER -> [ok |-> FALSE, v |-> 0]]

SegyFile(traces, geom, text) ==
    [traces |-> traces, geom |-> geom, text |-> text, bin |-> SampleBin]

NoFile == SegyFile(<<>>, "absent", "")

F2D == SegyFile(<<Trace(1, 1, -1), Trace(2, 2, -1)>>, "nosort", "TEXT 2D")
F3D == SegyFile(<<Trace(1, 1, 1), Trace(2, 1, -1), Trace(3, 1, 0)>>, "3D", "TEXT 3D")
FOne == SegyFile(<<Trace(1, 1, -1)>>, "nosort", "TEXT ONE")
FOther == SegyFile(<<Trace(1, 1, 1), Trace(2, 2, 1)>>, "othergeom", "TEXT OTHER")
FCorrupt == SegyFile(<<Trace(1, 1, 1)>>, "corrupt", "TEXT CORRUPT")

SampleFiles == {F2D, F3D, FOne, FOther, FCorrupt}

\* The table to_parquet stores for a frame.
Stored(df) == [cols |-> df.cols, rows |-> df.rows]

\* A table derived from a header table by the caller: the amplitudes are
\* attached (add_amplitudes_to_dataframe appends the column "Amplitudes").
WithAmplitudes(df) == SetColumn(df, "Amplitudes", [i \in 1 .. Len(df.rows) |-> 0])

DerivedTables == {WithAmplitudes(read_segy_headers(F2D))}

\* The dictionaries a caller saves for name itself: an entry that no
\* extraction computed.
DirectEntries(name) == {StatsDict(name, <<"Q">>, <<Line("Y", <<>>)>>, PyInt(7))}

\* The frames the caller attaches amplitudes to: the header table of name
\* when the handler's directory has one, and a selection of columns that
\* left trace_index out.
AmplitudeFrames(name) ==
    {SelectColumns(read_segy_headers(F2D), <<"CDP">>)}
    \cup (IF <<data_directory, name>> \in DOMAIN parquet
          THEN {read_parquet(parquet[<<data_directory, name>>])} ELSE {})

\* The statistics entry a handler persisted for name from the file f.
EntryOf(name, f) ==
    LET th == read_segy_headers(f)
        pair == extract_all_info(read_parquet(Stored(th)), f, Truthy(enter(f).is_3d))
    IN  JsonDump(StatsDict(name, StatColumns(th.cols), pair[1], pair[2]))

EmptyMap == [x \in {} |-> 0]

InitLast ==
    [op |-> "init", arg |-> <<>>, exc |-> "none", cause |-> "none",
     ret |-> {}, log |-> <<>>]

\* After construction: the handler's directory and registry, the seismic
\* files of the directory, and the cache artifacts an earlier session left
\* (none; a header table of "a" in the default directory; a header table
\* and a statistics entry of "b" in the handler's directory).
Init ==
    /\ data_directory \in Directories
    /\ available_segy_files \in Registries
    /\ \E fa \in SampleFiles \cup {NoFile}, fb \in {F3D, NoFile}, fc \in {F2D, NoFile} :
          LET files == [p \in {<< <<"a">>, ".sgy">>, << <<"a">>, ".segy">>,
                               << <<"a", "b">>, ".sgy">>} |->
                           IF p[1] = <<"a", "b">> THEN fc
                           ELSE IF p[2] = ".sgy" THEN fa ELSE fb]
          IN  segy = [p \in {q \in DOMAIN files : files[q] # NoFile} |-> files[p]]
    /\ \E pre \in {"none", "table", "entry"} :
          /\ parquet = CASE pre = "table" ->
                              Put(EmptyMap, <<DefaultDirectory, <<"a">> >>,
                                  Stored(read_segy_headers(F2D)))
                         [] pre = "entry" ->
                              Put(EmptyMap, <<data_directory, <<"b">> >>,
                                  Stored(read_segy_headers(F2D)))
                         [] OTHER -> EmptyMap
          /\ json = IF pre = "entry"
                    THEN Put(EmptyMap, <<"b">>, EntryOf(<<"b">>, F2D))
                    ELSE EmptyMap
    /\ txt = EmptyMap
    /\ last = InitLast
    /\ nops = 0
    /\ computed = [n \in Names |-> 0]
    /\ removed = {}

Next ==
    \/ \E current_file \in Names : Process(current_file)
    \/ \E current_file \in Names : GetStatistics(current_file)
    \/ \E kind \in Kinds, name \in Names : RemoveFile(kind, name)
    \/ \E df \in DerivedTables, file_name \in Names : ToParquet(df, file_name)
    \/ \E current_file \in Names : \E df \in AmplitudeFrames(current_file) :
          AddAmplitudes(df, current_file)
    \/ \E file_name \in Names : \E json_data \in DirectEntries(file_name) :
          SaveJson(file_name, json_data)

Spec == Init /\ [][Next]_vars

\* ------------------------------------------- generated seismic files
\* The binary headers of the generated files: the sampling interval is
\* 2000 us, 0, or cannot be read; the format code is 1 or 0.
GenBins ==
    {[k \in Range(BinFields) |->
        CASE k = "Interval" -> interval
          [] k = "Format" -> [ok |-> TRUE, v |-> format]
          [] OTHER -> SampleBin[k]] :
        interval \in {[ok |-> TRUE, v |-> 2000], [ok |-> TRUE, v |-> 0],
                      [ok |-> FALSE, v |-> 0]},
        format \in {0, 1}}

\* The file f with the binary header bin.
WithBin(f, bin) == [f EXCEPT !.bin = bin]

\* The files of 1 .. MaxTraces traces whose CDP is in 0 .. MaxVal and whose
\* coordinate scalar is in -MaxVal .. MaxVal, opened as 3D or as 2D, with a
\* binary header of GenBins.
GenFiles ==
    UNION {
        {WithBin(SegyFile([i \in 1 .. n |-> Trace(i, c[i][1], c[i][2])], geom, "TEXT"), bin) :
            c \in [1 .. n -> (0 .. MaxVal) \X ((-MaxVal) .. MaxVal)],
            geom \in {"3D", "nosort"}, bin \in GenBins} :
        n \in 1 .. MaxTraces}

\* A file with one trace more than the header scan reads: the coordinate
\* scalar is 0 in every scanned trace and 1 in the last trace.
FLong ==
    SegyFile([i \in 1 .. (max_traces_scan + 1) |->
                 Trace(i, 1, IF i > max_traces_scan THEN 1 ELSE 0)],
             "nosort", "TEXT LONG")

\* A handler of the default directory with the registry <<"a">>, and a
\* generated file a.sgy.
InitExtract ==
    /\ data_directory = DefaultDirectory
    /\ available_segy_files = << <<"a">> >>
    /\ \E f \in GenFiles \cup {FLong} : segy = Put(EmptyMap, << <<"a">>, ".sgy">>, f)
    /\ parquet = EmptyMap
    /\ json = EmptyMap
    /\ txt = EmptyMap
    /\ last = InitLast
    /\ nops = 0
    /\ computed = [n \in Names |-> 0]
    /\ removed = {}

NextExtract ==
    \/ Process(<<"a">>)
    \/ GetStatistics(<<"a">>)

SpecExtract == InitExtract /\ [][NextExtract]_vars

\* ------------------------------------------------------------ claims
StatCalls == {"get_seismic_statistics", "process_segy_file"}

\* The step is a call (every call counts up nops).
IsCall == nops' = nops + 1

\* The values of the report line with the given label.
LineVals(infos, label) ==
    infos[CHOOSE i \in DOMAIN infos : infos[i].label = label].vals

\* The statistics dictionary the last call returned.
Returned == CHOOSE x \in last.ret : TRUE

\* C1: get_seismic_statistics(name), called while <name>.json exists,
\* returns exactly the persisted content and does nothing else: its only
\* I/O is the read of the entry, and the seismic files, the header tables,
\* the text dumps and the entries are left as they were.
C1_CachedEntryReturnedUntouched ==
    [][(/\ IsCall
        /\ last'.op = "get_seismic_statistics"
        /\ last'.arg \in DOMAIN json)
       => (/\ last'.exc = "none"
           /\ last'.ret = {JsonLoad(json[last'.arg])}
           /\ last'.log = <<"load_json">>
           /\ UNCHANGED <<segy, parquet, txt, json>>)]_vars

\* A cached entry was returned although its header table is gone and no
\* seismic file of its base name is left.
C1_Witness ==
    /\ last.op = "get_seismic_statistics"
    /\ last.exc = "none"
    /\ last.log = <<"load_json">>
    /\ last.ret = {JsonLoad(json[last.arg])}
    /\ <<data_directory, last.arg>> \notin DOMAIN parquet
    /\ ~get_segy_file_path(segy, last.arg).ok

\* C2: a statistics call that follows a successful statistics call for the
\* same name returns the same dictionary, with the type and the value of
\* every field as the first call returned them.
C2_SecondCallReturnsTheSame ==
    [][(/\ IsCall
        /\ last.op \in StatCalls
        /\ last.exc = "none"
        /\ last'.op = "get_seismic_statistics"
        /\ last'.arg = last.arg)
       => (last'.exc = "none" /\ last'.ret = last.ret)]_vars

\* The first call computed the statistics and the second call read them
\* back from the entry.
C2_Witness ==
    /\ nops = 2
    /\ last.op = "get_seismic_statistics"
    /\ last.log = <<"load_json">>
    /\ computed[last.arg] = 1
    /\ Returned.scalco.t = "str"
    /\ Len(Returned.columns) > 0

\* C3: as long as no cache artifact of a name was removed, its statistics
\* were computed and written at most once, and once computed the entry is
\* there to serve the later calls.
C3_ComputedAtMostOnce ==
    \A n \in Names :
        n \notin removed =>
            /\ computed[n] <= 1
            /\ computed[n] = 1 => n \in DOMAIN json

\* Three calls for one name, the first of which computed the statistics;
\* the last one was served from the entry.
C3_Witness ==
    /\ nops = 3
    /\ last.op \in StatCalls
    /\ last.log = <<"load_json">>
    /\ last.arg \notin removed
    /\ computed[last.arg] = 1

\* C4: process_segy_file(name), for a name that resolves to a registered
\* base name other than itself and has no header table, raises ValueError
\* and creates nothing: no text dump, no header table, no entry, no result.
C4_AliasWithoutTableIsInvalid ==
    [][(/\ IsCall
        /\ last'.op = "process_segy_file"
        /\ get_segy_base_name(available_segy_files, last'.arg).ok
        /\ get_segy_base_name(available_segy_files, last'.arg).name # last'.arg
        /\ <<data_directory, last'.arg>> \notin DOMAIN parquet)
       => (/\ last'.exc = "ValueError"
           /\ last'.ret = {}
           /\ last'.log = <<>>
           /\ UNCHANGED <<segy, parquet, txt, json>>)]_vars

\* process_segy_file was refused for an alias of a registered base name
\* whose seismic file exists.
C4_Witness ==
    /\ last.op = "process_segy_file"
    /\ last.exc = "ValueError"
    /\ get_segy_base_name(available_segy_files, last.arg).ok
    /\ get_segy_base_name(available_segy_files, last.arg).name # last.arg
    /\ get_segy_file_path(segy, get_segy_base_name(available_segy_files, last.arg).name).ok
    /\ <<data_directory, last.arg>> \notin DOMAIN parquet

\* A registry entry is a substring of name.
Matches(name) ==
    {i \in DOMAIN available_segy_files : IsSubstring(available_segy_files[i], name)}

\* C5: the resolution returns the first registry entry, in registry order,
\* that is a substring of the name, and fails when there is none;
\* process_segy_file resolves before anything else: with no match it
\* raises ValueError and does no I/O, whatever caches the name has.
C5_FirstMatchWins ==
    /\ \A name \in Names :
          LET r == get_segy_base_name(available_segy_files, name)
          IN  /\ r.ok <=> Matches(name) # {}
              /\ r.ok => \E i \in Matches(name) :
                            /\ r.name = available_segy_files[i]
                            /\ \A k \in 1 .. (i - 1) : k \notin Matches(name)
    /\ (last.op = "process_segy_file" /\ Matches(last.arg) = {})
          => (last.exc = "ValueError" /\ last.ret = {} /\ last.log = <<>>)

\* process_segy_file failed on a name with no match that has a header
\* table and an entry, under a registry with two entries.
C5_Witness ==
    /\ last.op = "process_segy_file"
    /\ last.exc = "ValueError"
    /\ Matches(last.arg) = {}
    /\ Len(available_segy_files) = 2
    /\ Cardinality(Matches(<<"a", "b">>)) = 2
    /\ last.arg \in DOMAIN json
    /\ <<data_directory, last.arg>> \in DOMAIN parquet

\* The I/O of the statistics step.
StatEvents == {"load_json", "read_parquet", "extractor_read_parquet", "write_json"}

\* Every event of the set later happens after an event e of the log.
Precedes(log, e, later) ==
    \A j \in DOMAIN log : log[j] \in later => \E i \in 1 .. (j - 1) : log[i] = e

\* C6: when process_segy_file(name) may create the header table (name is
\* its own base name and has no table), the text header is dumped before
\* the table is written, the table is written before the statistics step
\* starts, and on return the dump, the table and the entry of name exist.
C6_DumpThenTableThenStatistics ==
    [][(/\ IsCall
        /\ last'.op = "process_segy_file"
        /\ get_segy_base_name(available_segy_files, last'.arg).ok
        /\ get_segy_base_name(available_segy_files, last'.arg).name = last'.arg
        /\ <<data_directory, last'.arg>> \notin DOMAIN parquet)
       => (/\ Precedes(last'.log, "write_txt", {"open_relaxed", "scan", "scrape", "write_parquet"})
           /\ Precedes(last'.log, "write_parquet", StatEvents)
           /\ last'.exc = "none" =>
                 /\ "write_txt" \in Range(last'.log)
                 /\ "write_parquet" \in Range(last'.log)
                 /\ last'.arg \in DOMAIN txt'
                 /\ <<data_directory, last'.arg>> \in DOMAIN parquet'
                 /\ last'.arg \in DOMAIN json'
                 /\ last'.ret # {})]_vars

\* process_segy_file created the dump and the table and computed the entry.
C6_Witness ==
    /\ last.op = "process_segy_file"
    /\ last.exc = "none"
    /\ "write_txt" \in Range(last.log)
    /\ "write_parquet" \in Range(last.log)
    /\ "write_json" \in Range(last.log)
    /\ last.arg \in DOMAIN txt
    /\ last.arg \in DOMAIN json

\* The header table process_segy_file wrote for "a", and the file it read.
TableA == parquet[<<data_directory, <<"a">> >>]
FileA == segy[<< <<"a">>, ".sgy">>]
HasTableA == <<data_directory, <<"a">> >> \in DOMAIN parquet

\* The values of a header field over the traces of the file.
FieldValues(f, k) == [i \in 1 .. Len(f.traces) |-> f.traces[i][k]]

\* C7: a header field is a column of the table if and only if its mean
\* over all the traces of the file is non-zero, and a field is dropped only
\* when all its values are zero.
C7_DroppedOnlyWhenAllZero ==
    HasTableA =>
        \A k \in TraceFieldSet :
            /\ k \in Range(TableA.cols) <=> SumSeq(FieldValues(FileA, k)) # 0
            /\ k \notin Range(TableA.cols) =>
                  \A i \in 1 .. Len(FileA.traces) : FileA.traces[i][k] = 0

\* The table of a file longer than the header scan was written: the
\* coordinate scalar, whose mean over all the traces is not zero, is not a
\* column of it, because it is zero in the traces the scan read.
C7_Witness ==
    /\ HasTableA
    /\ last.op = "process_segy_file"
    /\ Len(FileA.traces) > max_traces_scan
    /\ Len(TableA.rows) = Len(FileA.traces)
    /\ "CDP" \in Range(TableA.cols)
    /\ "SourceGroupScalar" \notin Range(TableA.cols)
    /\ SumSeq(FieldValues(FileA, "SourceGroupScalar")) # 0

\* C8: trace_index is a column of the table and its value in row k
\* (counted from 0) is k.
C8_TraceIndexIsRowNumber ==
    HasTableA =>
        /\ "trace_index" \in Range(TableA.cols)
        /\ Len(TableA.rows) = Len(FileA.traces)
        /\ \A k \in 1 .. Len(TableA.rows) : TableA.rows[k]["trace_index"] = k - 1

\* A table of several rows was written.
C8_Witness ==
    /\ HasTableA
    /\ last.op = "process_segy_file"
    /\ Len(TableA.rows) = MaxTraces
    /\ TableA.rows[MaxTraces]["trace_index"] = MaxTraces - 1

\* The CDP values of the table (zeros when the column was dropped).
CdpOfTableA ==
    [i \in 1 .. Len(TableA.rows) |->
        IF "CDP" \in Range(TableA.cols) THEN TableA.rows[i]["CDP"] ELSE 0]

\* The number of rows whose CDP is v.
FoldOf(v) == Cardinality({i \in DOMAIN CdpOfTableA : CdpOfTableA[i] = v})

\* The last call computed the statistics from the table of "a".
ComputedA == last.op \in StatCalls /\ "decoded" \in Range(last.log)

\* C9: the fold lines of the report are "Not applicable" if and only if
\* all CDP values of the table are identical (a dropped CDP column reads
\* as zeros); otherwise they are the mean, the maximum and the minimum of
\* the sizes of the groups of rows of equal CDP.
C9_FoldNotApplicableIffOneCdp ==
    ComputedA =>
        LET cdps == Range(CdpOfTableA)
            lines == <<LineVals(Returned.infos, "Average Fold"),
                       LineVals(Returned.infos, "Maximum Fold"),
                       LineVals(Returned.infos, "Minimum Fold")>>
        IN  /\ (\E i \in 1 .. 3 : lines[i] = <<str(NotApplicable)>>)
                  <=> Cardinality(cdps) = 1
            /\ (\A i \in 1 .. 3 : lines[i] = <<str(NotApplicable)>>)
                  <=> Cardinality(cdps) = 1
            /\ Cardinality(cdps) > 1 =>
                  /\ lines[1] = <<str(format_number(
                                     PyFloat(Len(CdpOfTableA), Cardinality(cdps))))>>
                  /\ \E v \in cdps : /\ lines[2] = <<IntToChars(FoldOf(v))>>
                                     /\ \A w \in cdps : FoldOf(w) <= FoldOf(v)
                  /\ \E v \in cdps : /\ lines[3] = <<IntToChars(FoldOf(v))>>
                                     /\ \A w \in cdps : FoldOf(w) >= FoldOf(v)

\* Statistics were computed from a table with one CDP value, and from a
\* table whose CDP column was dropped.
C9_Witness ==
    /\ ComputedA
    /\ "CDP" \notin Range(TableA.cols)
    /\ LineVals(Returned.infos, "Average Fold") = <<str(NotApplicable)>>

\* Zero, as a number or as the text of a number.
IsZero(value) ==
    \/ value.t # "str" /\ value.d # 0 /\ value.n = 0
    \/ value.t = "str" /\ value.s \in {<<"0">>, <<"-", "0">>, <<"0", ".", "0">>}

\* C10: the scaling factor is 1 when the mean of the coordinate scalar
\* over the table is zero (also when the column is not in the table), and
\* it is never zero in any representation.
C10_ScalingFactorNeverZero ==
    ComputedA =>
        /\ ~IsZero(Returned.scalco)
        /\ SumSeq(get_trace_header_value(read_parquet(TableA), "SourceGroupScalar").vals) = 0
              => Returned.scalco = PyInt(1)

\* The registered base name of the last call's argument, and the seismic
\* file the call resolved it to.
BaseOfLast == get_segy_base_name(available_segy_files, last.arg)
FileOfLast == segy[get_segy_file_path(segy, BaseOfLast.name).path]

\* The last call made the geometry probe.
Probed == last.op \in StatCalls /\ "open_strict" \in Range(last.log)

\* The opens of the probe of the last call, in order.
ProbeOpens ==
    LET first == CHOOSE i \in DOMAIN last.log :
                    /\ last.log[i] = "open_strict"
                    /\ \A k \in 1 .. (i - 1) : last.log[k] # "open_strict"
    IN  SelectSeq(SubSeq(last.log, first, Len(last.log)),
                  LAMBDA e : e \in {"open_strict", "open_failed", "open_relaxed"})

\* The data type the returned report shows.
DataTypeShown == LineVals(Returned.infos, "Data Type")

\* C11: the geometry probe has three outcomes.  A strict open that succeeds
\* is the only open and the file is tagged 3D; a strict open that fails
\* with the sorting signature is followed by exactly one relaxed open and
\* the file is tagged 2D; a strict open that fails otherwise is the only
\* open, its RuntimeError leaves the call as it is and nothing is tagged or
\* returned.  The tag depends on the file alone.
C11_GeometryProbeOutcomes ==
    Probed =>
        /\ FileOfLast.geom = "3D" =>
              /\ ProbeOpens = <<"open_strict">>
              /\ enter(FileOfLast).is_3d = "True"
              /\ last.exc = "none" => DataTypeShown = << <<"3D">> >>
        /\ FileOfLast.geom = "nosort" =>
              /\ ProbeOpens = <<"open_strict", "open_failed", "open_relaxed">>
              /\ enter(FileOfLast).is_3d = "False"
              /\ last.exc = "none" => DataTypeShown = << <<"2D">> >>
        /\ FileOfLast.geom \notin {"3D", "nosort"} =>
              /\ ProbeOpens = <<"open_strict", "open_failed">>
              /\ enter(FileOfLast).is_3d = "None"
              /\ last.exc = "RuntimeError"
              /\ last.cause = "none"
              /\ last.ret = {}
              /\ last.arg \notin DOMAIN json

\* The strict open of a file failed with another failure than the sorting
\* signature, although a relaxed open of the file would succeed.
C11_Witness ==
    /\ Probed
    /\ FileOfLast.geom = "othergeom"
    /\ last.exc = "RuntimeError"
    /\ ProbeOpens = <<"open_strict", "open_failed">>

\* The operations that open the seismic file.
OpeningCalls == StatCalls \cup {"add_amplitudes_to_dataframe"}

\* The number of handles on the seismic file that are open after the first
\* k events of a call's log: one more for every open, by the handler, the
\* extractor or a library function given the path, one less for every open
\* that raised and for every close.
Held(log, k) ==
    Cardinality({i \in 1 .. k :
                    log[i] \in {"open_strict", "open_relaxed", "open_by_path"}})
    - Cardinality({i \in 1 .. k : log[i] \in {"open_failed", "close"}})

\* Every handle the call opened is closed when it ends.
AllClosed == Held(last.log, Len(last.log)) = 0

\* C12: an operation that opens the seismic file has never more than one
\* handle open on it, has none open when the relaxed open of the fallback
\* is made, and has none open when it ends, whether it returns or raises.
C12_OneHandleAlwaysClosed ==
    last.op \in OpeningCalls =>
        /\ \A k \in 0 .. Len(last.log) : Held(last.log, k) \in {0, 1}
        /\ \A k \in 1 .. Len(last.log) :
              last.log[k] = "open_relaxed" => Held(last.log, k - 1) = 0
        /\ AllClosed

\* process_segy_file read the headers: the scan was made through a second
\* handle while the handle of read_segy_headers was open, and the text
\* header was read through a second handle inside the with block of the
\* extractor; every handle was closed at the end.
C12_Witness ==
    /\ last.op = "process_segy_file"
    /\ last.exc = "none"
    /\ \E k \in DOMAIN last.log : last.log[k] = "scan" /\ Held(last.log, k) = 2
    /\ \E k \in DOMAIN last.log :
          /\ last.log[k] = "texthead"
          /\ Held(last.log, k) = 2
          /\ "open_strict" \in Range(SubSeq(last.log, 1, k))
    /\ AllClosed

\* process_segy_file has to create the header table of the last call's
\* argument (as the state is after a call that failed to create it).
MustCreateTable ==
    /\ last.op = "process_segy_file"
    /\ BaseOfLast.ok
    /\ BaseOfLast.name = last.arg
    /\ <<data_directory, last.arg>> \notin DOMAIN parquet

\* C13: when process_segy_file has to create the header table and the base
\* name has no seismic file under .sgy or .segy, the caller sees the
\* FileNotFoundError itself; and no failure of a statistics call is another
\* failure raised in the place of the one that occurred.
C13_FailuresPropagateUnmodified ==
    /\ (MustCreateTable /\ ~get_segy_file_path(segy, last.arg).ok)
          => (last.exc = "FileNotFoundError" /\ last.cause = "none")
    /\ (last.op \in StatCalls /\ last.exc # "none") => last.cause = "none"

\* process_segy_file had to create the header table of a base name with
\* no seismic file: the caller got a plain Exception raised from the
\* FileNotFoundError, and nothing was created.
C13_Witness ==
    /\ MustCreateTable
    /\ ~get_segy_file_path(segy, last.arg).ok
    /\ last.exc = "Exception"
    /\ last.cause = "FileNotFoundError"
    /\ last.log = <<>>
    /\ last.arg \notin DOMAIN txt

\* The report the last call returned has a line with the label.
HasLine(label) == \E i \in DOMAIN Returned.infos : Returned.infos[i].label = label

\* The label of the report line of a binary header field.
BinLabel(field_name) == READABLE_NAMES(NAMES_EN(field_name))

\* C14: a binary header field is in the report if and only if it could be
\* read and its value is not zero, the sampling interval included (a zero
\* interval is not kept); the data type is always there, "3D" or "2D" as
\* the file was classified.
C14_BinaryFieldKeptIffNonZero ==
    ComputedA =>
        /\ \A k \in Range(BinFields) :
              HasLine(BinLabel(k)) <=> (FileA.bin[k].ok /\ FileA.bin[k].v # 0)
        /\ HasLine("Data Type")
        /\ DataTypeShown = IF FileA.geom = "3D" THEN << <<"3D">> >> ELSE << <<"2D">> >>

\* The statistics of a file whose sampling interval is 0 were computed: the
\* report has the line "Sampling Rate (ms): 0", and no line for the format
\* code 0.
C14_Witness ==
    /\ ComputedA
    /\ FileA.bin["Interval"] = [ok |-> TRUE, v |-> 0]
    /\ FileA.bin["Format"] = [ok |-> TRUE, v |-> 0]
    /\ HasLine("Sampling Rate (ms)")
    /\ LineVals(Returned.infos, "Sampling Rate (ms)") = << <<"0">> >>
    /\ ~HasLine("Data Format")

\* The labels of the inline/crossline lines, and of the sections in the
\* order of the contract.
LineLabels3D ==
    {"Inline Range", "Crossline Range", "Inline Dimensions",
     "Crossline Dimensions", "Inline Spacing", "Crossline Spacing"}

SectionLabels ==
    <<"INFORMATION CONTAINED IN THE ASCII HEADER:", "BASIC INFORMATION:",
      "BINARY HEADER INFORMATION:", "GEOMETRY INFORMATION:",
      "ACQUISITION INFORMATION:">>

\* The positions of the lines of the returned report with the label.
LinesAt(label) == {i \in DOMAIN Returned.infos : Returned.infos[i].label = label}

\* C15: a returned report has the six inline/crossline lines if and only if
\* the strict open of the file succeeded (all of them for a 3D file, none
\* for a file classified 2D by the fallback), and its sections are, each
\* once and in this order: textual header, basic information, binary
\* header, geometry, acquisition.
C15_LinesOf3DIffStrictOpen ==
    (last.op \in StatCalls /\ last.exc = "none") =>
        /\ \A label \in LineLabels3D :
              Cardinality(LinesAt(label)) = (IF FileA.geom = "3D" THEN 1 ELSE 0)
        /\ \A s \in DOMAIN SectionLabels : Cardinality(LinesAt(SectionLabels[s])) = 1
        /\ \A s \in 1 .. (Len(SectionLabels) - 1) :
              \A i \in LinesAt(SectionLabels[s]), j \in LinesAt(SectionLabels[s + 1]) : i < j
        /\ \A i \in LinesAt("ASCII_header"), j \in LinesAt(SectionLabels[2]) : i < j
        /\ \A i \in LinesAt("Data Type"), j \in LinesAt(SectionLabels[4]) :
              i < j /\ \A k \in LinesAt(SectionLabels[3]) : k < i

\* The report of a 3D file was returned: it has the inline range, after the
\* lines of the acquisition section.
C15_Witness ==
    /\ ComputedA
    /\ last.exc = "none"
    /\ FileA.geom = "3D"
    /\ \E i \in LinesAt("Inline Range"), j \in LinesAt("Minimum Fold") : j < i
    /\ LinesAt("Crossline Spacing") = {Len(Returned.infos)}

\* C16: process_segy_file(n), for an entry n of the registry that has a
\* seismic file and no header table, is allowed to create the table: it
\* does not raise ValueError, whatever the other entries of the registry
\* and their order.
C16_RegisteredNameMayCreateTable ==
    [][(/\ IsCall
        /\ last'.op = "process_segy_file"
        /\ last'.arg \in Range(available_segy_files)
        /\ get_segy_file_path(segy, last'.arg).ok
        /\ <<data_directory, last'.arg>> \notin DOMAIN parquet)
       => last'.exc # "ValueError"]_vars

\* process_segy_file was refused for a registered name with a seismic file
\* and no header table, because an earlier entry of the registry is a
\* substring of the name.
C16_Witness ==
    /\ last.op = "process_segy_file"
    /\ last.exc = "ValueError"
    /\ last.arg \in Range(available_segy_files)
    /\ get_segy_file_path(segy, last.arg).ok
    /\ <<data_directory, last.arg>> \notin DOMAIN parquet
    /\ BaseOfLast.ok
    /\ BaseOfLast.name # last.arg
    /\ last.log = <<>>

\* The header table of the last call's argument in the handler's
\* directory, as a frame.
HandlerTableOfLast == read_parquet(parquet[<<data_directory, last.arg>>])

\* The last call went on to the extractor (it had read the column list from
\* the header table of the handler's directory).
ReachedExtractor ==
    last.op \in StatCalls /\ "extractor_read_parquet" \in Range(last.log)

\* C17: the extractor reads the header table the column list was read
\* from, the one of the handler's directory: its read does not fail for a
\* missing table, and the report and the scaling factor of a computed
\* result are those of that table.
C17_ExtractorReadsHandlerTable ==
    ReachedExtractor =>
        /\ ~(last.exc = "Exception" /\ last.cause = "FileNotFoundError")
        /\ "decoded" \in Range(last.log) =>
              /\ ~basic_info_fails(HandlerTableOfLast)
              /\ <<Returned.infos, Returned.scalco>>
                    = extract_all_info(HandlerTableOfLast, FileOfLast,
                                       Truthy(enter(FileOfLast).is_3d))

\* A handler of another directory than ./data computed statistics from the
\* header table ./data holds for the name, which is not the table of its
\* own directory.
C17_Witness ==
    /\ ReachedExtractor
    /\ "decoded" \in Range(last.log)
    /\ data_directory # DefaultDirectory
    /\ <<DefaultDirectory, last.arg>> \in DOMAIN parquet
    /\ parquet[<<DefaultDirectory, last.arg>>] # parquet[<<data_directory, last.arg>>]
    /\ LineVals(Returned.infos, "Number of Channels")
          # <<IntToChars(Len(HandlerTableOfLast.rows))>>

=============================================================================
